---- MODULE Spec2Model ----
(***************************************************************************)
(* NTCthermostat: an NTC voltage-divider temperature sensor (NTCsensor)    *)
(* and a polling thermostat (NTCthermostat) that dispatches three          *)
(* callbacks, together with the example sketch src/src/ntcThermostat.cpp.  *)
(*                                                                         *)
(* Numbers.  The C++ code computes in double.  Here                        *)
(*   - voltages, the factors v and k and the resistance Rt are exact       *)
(*     rationals [k |-> kind, n |-> numerator, d |-> denominator > 0],     *)
(*     and so is Roo (exp is computed in fixed point);                     *)
(*   - Kelvin and Celsius temperatures and the float limits of the         *)
(*     thermostat are fixed-point numbers of 1/100 degree, Fahrenheit of   *)
(*     1/500 degree (so that C*9/5+32 is exact);                           *)
(*   - every value carries its IEEE-754 kind: "num", "pinf", "ninf",       *)
(*     "nan"; division by zero, log(0) and comparisons follow IEEE-754;    *)
(*   - the uint32_t value of millis() is held as the 32-bit two's          *)
(*     complement integer with the same bits: 2^32 - 1 is -1, and the      *)
(*     counter's wrap to 0 is the step from -1 to 0.                       *)
(***************************************************************************)
EXTENDS Integers, Sequences, FiniteSets, TLC

(***************************************************************************)
(* Arithmetic helpers                                                      *)
(***************************************************************************)
Abs(x) == IF x < 0 THEN -x ELSE x

Range(f) == {f[i] : i \in DOMAIN f}

Sign(x) == IF x < 0 THEN -1 ELSE IF x > 0 THEN 1 ELSE 0

Gcd[a \in Nat, b \in Nat] == IF b = 0 THEN a ELSE Gcd[b, a % b]

\* <<q, r>> with a*b = q*d + r, 0 <= r < d, computed without forming a*b
\* (the product of two doubles does not overflow where a 32-bit integer would)
MulDivQR[a \in Nat, b \in Nat, d \in Nat] ==
    IF a = 0 THEN <<0, 0>>
    ELSE LET h == MulDivQR[a \div 2, b, d]
             s == 2 * h[2] + (a % 2) * b
         IN  <<2 * h[1] + (s \div d), s % d>>

MulDiv(a, b, d) == MulDivQR[a, b, d][1]

Pow2[e \in Nat] == IF e = 0 THEN 1 ELSE 2 * Pow2[e - 1]

Log2Floor[n \in Nat] == IF n < 2 THEN 0 ELSE 1 + Log2Floor[n \div 2]

(***************************************************************************)
(* IEEE-754 values                                                         *)
(***************************************************************************)
PInf == [k |-> "pinf", n |-> 0, d |-> 1]
NInf == [k |-> "ninf", n |-> 0, d |-> 1]
NaN  == [k |-> "nan",  n |-> 0, d |-> 1]

\* the rational n/d, d # 0, in lowest terms
Rat(n, d) ==
    LET g == Gcd[Abs(n), Abs(d)]
    IN  [k |-> "num", n |-> Sign(d) * (n \div g), d |-> Abs(d) \div g]

\* a fixed-point number of v units
Fix(v) == [k |-> "num", n |-> v, d |-> 1]

IsNum(x) == x.k = "num"

\* the sign of a value that is not NaN
SignOf(x) == IF x.k = "pinf" THEN 1 ELSE IF x.k = "ninf" THEN -1 ELSE Sign(x.n)

Neg(x) == IF x.k = "pinf" THEN NInf
          ELSE IF x.k = "ninf" THEN PInf
          ELSE IF x.k = "nan" THEN NaN
          ELSE [x EXCEPT !.n = -x.n]

\* x + y for rationals
RAdd(x, y) ==
    IF x.k = "nan" \/ y.k = "nan" THEN NaN
    ELSE IF IsNum(x) /\ IsNum(y) THEN Rat(x.n * y.d + y.n * x.d, x.d * y.d)
    ELSE IF IsNum(x) THEN y
    ELSE IF IsNum(y) \/ x.k = y.k THEN x
    ELSE NaN

RSub(x, y) == RAdd(x, Neg(y))

\* a * b is a 32-bit integer
FitsProduct(a, b) == a = 0 \/ b = 0 \/ Abs(a) <= 2147483647 \div Abs(b)

\* number of low bits a * b has beyond 28 bits
ExcessBits(a, b) ==
    IF FitsProduct(a, b) THEN 0
    ELSE Log2Floor[Abs(a)] + Log2Floor[Abs(b)] - 26

\* (an * bn) / (ad * bd), ad, bd > 0, both products rounded to the leading
\* 28 bits of the larger one when one of them is no 32-bit integer (a double
\* rounds its mantissa in the same way, to 53 bits)
ProductRat(an, bn, ad, bd, e) ==
    IF e = 0 THEN Rat(an * bn, ad * bd)
    ELSE IF MulDiv(ad, bd, Pow2[e]) = 0
         THEN (IF an * Sign(bn) = 0 THEN Fix(0) ELSE IF Sign(an) * Sign(bn) > 0 THEN PInf ELSE NInf)
    ELSE Rat(Sign(an) * Sign(bn) * MulDiv(Abs(an), Abs(bn), Pow2[e]), MulDiv(ad, bd, Pow2[e]))

\* x * y for rationals (cross-reduced before multiplying)
RMul(x, y) ==
    IF x.k = "nan" \/ y.k = "nan" THEN NaN
    ELSE IF IsNum(x) /\ IsNum(y)
         THEN LET a == Rat(x.n, y.d)
                  b == Rat(y.n, x.d)
                  en == ExcessBits(a.n, b.n)
                  ed == ExcessBits(a.d, b.d)
              IN  ProductRat(a.n, b.n, a.d, b.d, IF en > ed THEN en ELSE ed)
    ELSE IF SignOf(x) * SignOf(y) = 0 THEN NaN
    ELSE IF SignOf(x) * SignOf(y) > 0 THEN PInf ELSE NInf

\* x / y for rationals: x/0 is +-inf for x # 0 and NaN for x = 0
RDiv(x, y) ==
    IF x.k = "nan" \/ y.k = "nan" THEN NaN
    ELSE IF IsNum(x) /\ IsNum(y)
         THEN IF y.n # 0 THEN RMul(x, Rat(y.d, y.n))
              ELSE IF x.n = 0 THEN NaN
              ELSE IF x.n > 0 THEN PInf ELSE NInf
    ELSE IF IsNum(x) THEN Fix(0)
    ELSE IF IsNum(y) THEN (IF SignOf(x) * (IF y.n < 0 THEN -1 ELSE 1) > 0 THEN PInf ELSE NInf)
    ELSE NaN

\* n1/d1 < n2/d2 for d1, d2 > 0, decided on the integer parts and then on the
\* reciprocals of the fractional parts (no product is formed)
RatLess[n1 \in Int, d1 \in Nat, n2 \in Int, d2 \in Nat] ==
    IF n1 \div d1 # n2 \div d2 THEN n1 \div d1 < n2 \div d2
    ELSE IF n2 % d2 = 0 THEN FALSE
    ELSE IF n1 % d1 = 0 THEN TRUE
    ELSE RatLess[d2, n2 % d2, d1, n1 % d1]

\* x < y as the FPU decides it: every comparison with NaN is false
FLess(x, y) ==
    /\ x.k # "nan"
    /\ y.k # "nan"
    /\ \/ x.k = "ninf" /\ y.k # "ninf"
       \/ y.k = "pinf" /\ x.k # "pinf"
       \/ IsNum(x) /\ IsNum(y) /\ RatLess[x.n, x.d, y.n, y.d]

\* x + c for fixed-point numbers of the same unit
FixAdd(x, c) == IF IsNum(x) THEN Fix(x.n + c) ELSE x

(***************************************************************************)
(* exp and log in fixed point                                              *)
(***************************************************************************)
\* fixed-point scale of logarithms and exponents (1/10000)
LnScale == 10000

\* ln 2 in units of 1/1000000
Ln2Micro == 693147

\* 2*atanh(z) = 2*(z + z^3/3 + z^5/5 + z^7/7 + z^9/9), z in units of 1/LnScale
TwoAtanh(z) ==
    LET z2 == (z * z) \div LnScale
        z3 == (z * z2) \div LnScale
        z5 == (z3 * z2) \div LnScale
        z7 == (z5 * z2) \div LnScale
        z9 == (z7 * z2) \div LnScale
    IN  2 * (z + z3 \div 3 + z5 \div 5 + z7 \div 7 + z9 \div 9)

\* ln(m * 2^sh) for an integer 1 <= m < 2^29, in units of 1/LnScale
LnShifted(m, sh) ==
    LET e == Log2Floor[m]
        p == Pow2[e]
        z == MulDiv(m - p, LnScale, m + p)
    IN  ((e + sh) * Ln2Micro) \div 100 + TwoAtanh(z)

\* ln(n) for an integer n >= 1, in units of 1/LnScale, of the leading 29 bits
\* of n
LnInt(n) ==
    IF Log2Floor[n] > 28
    THEN LnShifted(n \div Pow2[Log2Floor[n] - 28], Log2Floor[n] - 28)
    ELSE LnShifted(n, 0)

\* exp(-r) for 0 <= r < ln 2, r and the result in units of 1/LnScale
ExpNegSmall(r) ==
    LET r2 == (r * r) \div LnScale
        r3 == (r2 * r) \div LnScale
        r4 == (r3 * r) \div LnScale
        r5 == (r4 * r) \div LnScale
        r6 == (r5 * r) \div LnScale
    IN  LnScale - r + r2 \div 2 - r3 \div 6 + r4 \div 24 - r5 \div 120 + r6 \div 720

(***************************************************************************)
(* NTCsensor (src/lib/NTCsensor)                                           *)
(***************************************************************************)
\* nominal temperature 25.0 degrees Celsius, in 1/100 degree
To == 2500

\* absolute zero -273.15 degrees Celsius, in 1/100 degree
Tabs == -27315

\* Roo = Ro * exp(-beta / (To - Tabs)), as the constructor computes it
RooOf(paramsNtc) ==
    LET x == MulDiv(paramsNtc.beta, 100 * LnScale, To - Tabs)
        q == (x * 100) \div Ln2Micro
        r == x - (q * Ln2Micro) \div 100
    IN  IF q > 30 THEN Fix(0)
        ELSE RMul(Rat(paramsNtc.Ro, LnScale), Rat(ExpNegSmall(r), Pow2[q]))

\* log(Rt / Roo) in units of 1/LnScale
LogRatio(rt, roo) ==
    LET ratio == IF IsNum(rt) /\ IsNum(roo) /\ roo.n # 0
                 THEN [k |-> "num", n |-> Sign(rt.n) * Sign(roo.n), d |-> 1]
                 ELSE RDiv(rt, roo)
    IN  IF ratio.k = "nan" \/ ratio.k = "ninf" THEN NaN
        ELSE IF ratio.k = "pinf" THEN PInf
        ELSE IF ratio.n < 0 THEN NaN
        ELSE IF ratio.n = 0 THEN NInf
        ELSE IF rt = roo THEN Fix(0)
        ELSE LET l == LnInt(rt.n) - LnInt(rt.d) - LnInt(roo.n) + LnInt(roo.d)
             IN  IF l # 0 THEN Fix(l)
                 ELSE IF FLess(rt, roo) THEN Fix(-1) ELSE Fix(1)

\* beta / l in 1/100 Kelvin, l the logarithm in units of 1/LnScale
KelvinFrom(beta, l) ==
    IF l.k = "nan" THEN NaN
    ELSE IF l.k = "pinf" \/ l.k = "ninf" THEN Fix(0)
    ELSE IF l.n = 0 THEN (IF beta = 0 THEN NaN ELSE PInf)
    ELSE Fix(Sign(l.n) * MulDiv(beta * 100, LnScale, Abs(l.n)))

\* beta / log(Rt / Roo) in 1/100 Kelvin
KelvinOf(beta, rt, roo) == KelvinFrom(beta, LogRatio(rt, roo))

\* tCelsius * (9 / 5) + 32 with the integer quotient 9 / 5 = 1
FahrenheitIntegerQuotient(c) == IF IsNum(c) THEN Fix(5 * c.n + 16000) ELSE c

\* tCelsius * 9.0 / 5.0 + 32.0, in 1/500 degree Fahrenheit
FahrenheitOf(c) == IF IsNum(c) THEN Fix(9 * c.n + 16000) ELSE c

\* the statements of _readSensor(), each on the members s it finds
\* _analogValue = analogRead(_adc.pin)
readAnalogValue(s, aval) == [s EXCEPT !.analogValue = aval]

\* _v = (_adc.Vref - _adc.Voff) / _adc.Amax
readV(s, paramsAdc) ==
    [s EXCEPT !.v = RDiv(RSub(Fix(paramsAdc.Vref), Fix(paramsAdc.Voff)), Fix(paramsAdc.Amax))]

\* the voltage across the other resistor of the divider: (Amax - Aval) * v + Voff
readVinAcrossOther(s, paramsAdc) ==
    [s EXCEPT !.vin = RAdd(RMul(Fix(paramsAdc.Amax - s.analogValue), s.v), Fix(paramsAdc.Voff))]

\* _vin = _analogValue * _v + _adc.Voff
readVin(s, paramsAdc) ==
    [s EXCEPT !.vin = RAdd(RMul(Fix(s.analogValue), s.v), Fix(paramsAdc.Voff))]

\* _k = _vin / (_adc.Vcc - _vin)
readK(s, paramsAdc) == [s EXCEPT !.k = RDiv(s.vin, RSub(Fix(paramsAdc.Vcc), s.vin))]

\* k never inverted
invertKNever(s, paramsAdc) == s

\* if (_adc.ntcToGround == false) _k = 1 / _k
invertK(s, paramsAdc) ==
    IF paramsAdc.ntcToGround = FALSE THEN [s EXCEPT !.k = RDiv(Fix(1), s.k)] ELSE s

\* the nominal resistance Ro in place of the series resistance Rs
readRtFromRo(s, paramsNtc) == [s EXCEPT !.Rt = RMul(Fix(paramsNtc.Ro), s.k)]

\* the resistance stored in _Roo as well
readRtIntoRoo(s, paramsNtc) ==
    [s EXCEPT !.Rt = RMul(Fix(paramsNtc.Rs), s.k), !.Roo = RMul(Fix(paramsNtc.Rs), s.k)]

\* _Rt = _ntc.Rs * _k
readRt(s, paramsNtc) == [s EXCEPT !.Rt = RMul(Fix(paramsNtc.Rs), s.k)]

\* _tKelvin = _ntc.beta / log(_Rt / _Roo)
readKelvin(s, paramsNtc) == [s EXCEPT !.tKelvin = KelvinOf(paramsNtc.beta, s.Rt, s.Roo)]

\* _tCelsius = _tKelvin + _Tabs
readCelsius(s) == [s EXCEPT !.tCelsius = FixAdd(s.tKelvin, Tabs)]

\* _tFahrenheit = _tCelsius * 9.0 / 5.0 + 32.0
readFahrenheit(s) == [s EXCEPT !.tFahrenheit = FahrenheitOf(s.tCelsius)]

\* the sensor object after its constructor: only _Roo is assigned, the other
\* members of the global object are zero-initialised
NewSensor(roo) ==
    [Roo |-> roo, analogValue |-> 0, v |-> Fix(0), vin |-> Fix(0),
     k |-> Fix(0), Rt |-> Fix(0), tKelvin |-> Fix(0), tCelsius |-> Fix(0),
     tFahrenheit |-> Fix(0)]

\* Rt of the older ratio-based NTCsensor::_update for aval >= 1:
\* _k = _analogMax / _analogValue - 1; _k = _ntcToGround ? 1 / _k : _k; _Rt = _Rs * _k
olderRt(paramsNtc, paramsAdc, aval) ==
    RMul(Fix(paramsNtc.Rs),
         IF paramsAdc.ntcToGround
         THEN RDiv(Fix(1), RSub(RDiv(Fix(paramsAdc.Amax), Fix(aval)), Fix(1)))
         ELSE RSub(RDiv(Fix(paramsAdc.Amax), Fix(aval)), Fix(1)))

\* the members after _readSensor(), analogRead() returning aval
readSensor(paramsNtc, paramsAdc, roo, aval) ==
    readFahrenheit(readCelsius(readKelvin(readRt(invertK(readK(readVin(readV(
        readAnalogValue(NewSensor(roo), aval),
        paramsAdc), paramsAdc), paramsAdc), paramsAdc), paramsNtc), paramsNtc)))

\* ParamsNTC of the example sketch
ntcRs10k == [Rs |-> 10000, Ro |-> 10000, beta |-> 2800]

\* ParamsADC of the example sketch (Arduino Uno: pin A0 = 14)
adcUno == [pin |-> 14, ntcToGround |-> TRUE, Amax |-> 1023, Vcc |-> 5000, Vref |-> 5000, Voff |-> 0]

\* sensors constructed from parameters the data model calls configuration errors
ntcRoZero == [Rs |-> 10000, Ro |-> 0, beta |-> 2800]

ntcBetaZero == [Rs |-> 10000, Ro |-> 10000, beta |-> 0]

adcVrefBelowVoff == [pin |-> 14, ntcToGround |-> TRUE, Amax |-> 1023, Vcc |-> 5000, Vref |-> 0, Voff |-> 130]

\* adcUno with the NTC connected to Vcc
adcUnoToVcc == [pin |-> 14, ntcToGround |-> FALSE, Amax |-> 1023, Vcc |-> 5000, Vref |-> 5000, Voff |-> 0]

\* parameters with which the raw code 1 gives Rt == Roo: Roo = 8192 * exp(-2800 / 298.15)
\* is 6837/10000 in the fixed-point exp, and Rt = 6837 * 1 / (10001 - 1)
ntcAtRoo == [Rs |-> 6837, Ro |-> 8192, beta |-> 2800]

adcAtRoo == [pin |-> 14, ntcToGround |-> TRUE, Amax |-> 10001, Vcc |-> 5000, Vref |-> 5000, Voff |-> 0]

\* ParamsADC of the example sketch for the Wemos D1 R2 (pin A0 = 17)
adcWemos == [pin |-> 17, ntcToGround |-> TRUE, Amax |-> 1023, Vcc |-> 3300, Vref |-> 3200, Voff |-> -41]

\* an NTC that reads 0.00 degrees Celsius at the raw code 719 of adcUno
ntcBeta2805 == [Rs |-> 10000, Ro |-> 10000, beta |-> 2805]

\* the <<ParamsNTC, ParamsADC>> pairs a sensor is constructed from
SensorConfigs ==
    { <<ntcRs10k, adcUno>>, <<ntcRs10k, adcUnoToVcc>>, <<ntcAtRoo, adcAtRoo>>,
      <<ntcBeta2805, adcUno>>, <<ntcRs10k, adcWemos>>,
      <<ntcRoZero, adcUno>>, <<ntcBetaZero, adcUno>>, <<ntcRs10k, adcVrefBelowVoff>> }

\* the pairs the thermostat's sensor is constructed from when singular readings
\* are followed
ThermostatConfigs == { <<ntcRs10k, adcUno>>, <<ntcAtRoo, adcAtRoo>>, <<ntcRs10k, adcWemos>> }

\* raw codes analogRead() returns to loop(): 22.10, 21.00 and 17.87 degrees
\* Celsius with ntcRs10k and adcUno, and the ends 0, 1 and Amax of adcUno
RawCodes == {0, 1, 535, 544, 570, 1023}

\* raw codes analogRead() returns to the reads the callbacks make
CallbackRawCodes == {535, 570}

\* raw codes analogRead() returns to a getter called on the sensor alone
SensorRawCodes == RawCodes \cup {488, 511, 512, 719, 1022}

\* readSensor tabulated for the constructed sensors and the raw codes
\* (@@ makes the table an enumerated function, evaluated once)
Samples ==
    [cfg \in SensorConfigs |->
        [raw \in SensorRawCodes |-> readSensor(cfg[1], cfg[2], RooOf(cfg[1]), raw)] @@ <<>>] @@ <<>>

(***************************************************************************)
(* NTCthermostat (src/lib/NTCthermostat) and the sketch's callbacks        *)
(***************************************************************************)
\* float _tLimitLow = 18.0, in 1/100 degree
DefaultLimitLow == 1800

\* float _upperLimit = 22.0 of the older variants, in 1/100 degree
OlderUpperLimit == 2200

\* float _tLimitHigh = 21.0, in 1/100 degree
DefaultLimitHigh == 2100

\* uint32_t _msRefresh = 5000
DefaultRefresh == 5000

\* limits passed to setLimitLow / setLimitHigh, in 1/100 degree
LimitValues == {1800, 2100, 2200}

\* intervals passed to setRefreshInterval
IntervalValues == {0, 2, 5000}

\* the latest value of millis() the model follows
MaxTick == 10000

\* values millis() shows when loop() reads it
Ticks == {n \in {0, 1, 4999, 5000, 5001, 10000, 10001} : n <= MaxTick}

VARIABLES
    ntc,          \* ParamsNTC the sensor refers to
    adc,          \* ParamsADC the sensor refers to
    sensor,       \* members of the NTCsensor object
    isEnabled,    \* NTCthermostat::_isEnabled
    tLimitLow,    \* NTCthermostat::_tLimitLow, in 1/100 degree
    tLimitHigh,   \* NTCthermostat::_tLimitHigh, in 1/100 degree
    msRefresh,    \* NTCthermostat::_msRefresh
    heatingIsOn,  \* the sketch's heatingIsOn
    millis,       \* value of millis() at the latest loop() call
    trapped,      \* the program stopped in a division-by-zero trap
    lastOp,       \* the operation executed last
    calls,        \* callbacks the latest operation invoked, in order
    reads,        \* callers of _readSensor() during the latest operation, in order
    t,            \* loop()'s local float t of the latest firing
    tRaw,         \* raw code of the sample loop() took for t
    lastFire,     \* value of millis() at the latest data-ready invocation
    arg,          \* argument of the latest operation
    returned      \* value the latest operation returned

vars == <<ntc, adc, sensor, isEnabled, tLimitLow, tLimitHigh, msRefresh,
          heatingIsOn, millis, trapped, lastOp, calls, reads, t, tRaw, lastFire,
          arg, returned>>

thermostatVars == <<isEnabled, tLimitLow, tLimitHigh, msRefresh>>

\* no raw code: loop() did not sample
NoRaw == -1

\* no tick: data-ready was never invoked
NoTick == -1

\* no argument: the operation takes none
NoArg == -1

\* no value: the operation returns void
Void == [k |-> "void", n |-> 0, d |-> 1]

\* a bool as a returned value
Bool(b) == [k |-> "bool", n |-> IF b THEN 1 ELSE 0, d |-> 1]

\* the objects after construction, the sensor constructed from cfg
Constructed(cfg) ==
    /\ ntc = cfg[1]
    /\ adc = cfg[2]
    /\ sensor = NewSensor(RooOf(cfg[1]))
    /\ isEnabled = FALSE
    /\ tLimitLow = DefaultLimitLow
    /\ tLimitHigh = DefaultLimitHigh
    /\ msRefresh = DefaultRefresh
    /\ heatingIsOn = FALSE
    /\ millis = 0
    /\ trapped = FALSE
    /\ lastOp = "init"
    /\ calls = <<>>
    /\ reads = <<>>
    /\ t = NaN
    /\ tRaw = NoRaw
    /\ lastFire = NoTick
    /\ arg = NoArg
    /\ returned = Void

\* the sketch: NTCsensor ntcSensor(ntcRs10k, adcUno)
Init == Constructed(<<ntcRs10k, adcUno>>)

\* the part of the program that a callback chain works on
AppState ==
    [sensor |-> sensor, heatingIsOn |-> heatingIsOn, calls |-> <<>>, reads |-> <<>>, t |-> NaN]

\* _readSensor() called by `who`, analogRead() returning raw
ReadBy(st, who, raw) ==
    [st EXCEPT !.sensor = Samples[<<ntc, adc>>][raw],
               !.reads = Append(@, who)]

\* a callback reference is called
Invoke(st, cb) == [st EXCEPT !.calls = Append(@, cb)]

\* processData() -> showValues(): printParams() reads nothing, printValues() samples
processData(st, raw) == ReadBy(st, "printValues", raw)

\* turnHeatingOn() without the test of heatingIsOn
turnHeatingOnAgain(st, raw) ==
    [ReadBy(st, "turnHeatingOn", raw) EXCEPT !.heatingIsOn = TRUE]

\* turnHeatingOn(): acts only while the heating is off; prints getCelsius()
turnHeatingOn(st, raw) ==
    IF ~st.heatingIsOn
    THEN [ReadBy(st, "turnHeatingOn", raw) EXCEPT !.heatingIsOn = TRUE]
    ELSE st

\* turnHeatingOff(): acts only while the heating is on; prints getCelsius()
turnHeatingOff(st, raw) ==
    IF st.heatingIsOn
    THEN [ReadBy(st, "turnHeatingOff", raw) EXCEPT !.heatingIsOn = FALSE]
    ELSE st

\* 2^e mod m
Pow2Rem[e \in Nat, m \in Nat] == IF e = 0 THEN 1 % m ELSE (2 * Pow2Rem[e - 1, m]) % m

\* the uint32_t with the bits of n, modulo ms > 0: n mod ms for n >= 0 and
\* (n + 2^32) mod ms for n < 0
Uint32Rem(n, ms) == IF n >= 0 THEN n % ms ELSE ((n % ms) + Pow2Rem[32, ms]) % ms

\* a rolling elapsed-time check in place of the modulo
RemainderElapsed(n, ms, ub) ==
    IF ms = 0 THEN (IF ub = "zero" THEN 0 ELSE 1) ELSE IF n >= ms THEN 0 ELSE n

\* millis() % _msRefresh; the remainder of a division by zero is whatever the
\* build produces (ub), unless the division traps
Remainder(n, ms, ub) == IF ms = 0 THEN (IF ub = "zero" THEN 0 ELSE 1) ELSE Uint32Rem(n, ms)

\* the condition without the enabled flag
GateAlways(rem, enabled) == rem = 0

\* the condition of loop()'s if
Gate(rem, enabled) == rem = 0 /\ enabled

\* a non-strict comparison with the low limit
BelowOrAtLow(temp, low) == FLess(temp, Fix(low)) \/ temp = Fix(low)

\* the comparisons of loop()
BelowLow(temp, low) == FLess(temp, Fix(low))

AboveHigh(temp, high) == FLess(Fix(high), temp)

\* float t = _ntcSensor.getCelsius()
sampleT(st, raw) == [ReadBy(st, "loop", raw) EXCEPT !.t = ReadBy(st, "loop", raw).sensor.tCelsius]

\* data-ready skipped when the sample is not a finite number
dataReadyIfFinite(st, raw) ==
    IF IsNum(st.t) THEN processData(Invoke(st, "onDataReady"), raw) ELSE st

\* _onDataReady()
dataReady(st, raw) == processData(Invoke(st, "onDataReady"), raw)

\* if (t < _tLimitLow) _onLowTemp()
lowTemp(st, low, raw) ==
    IF BelowLow(st.t, low) THEN turnHeatingOn(Invoke(st, "onLowTemp"), raw) ELSE st

\* the high callback invoked at the limit as well
highTempOrAt(st, high, raw) ==
    IF AboveHigh(st.t, high) \/ st.t = Fix(high)
    THEN turnHeatingOff(Invoke(st, "onHighTemp"), raw) ELSE st

\* if (t > _tLimitHigh) _onHighTemp()
highTemp(st, high, raw) ==
    IF AboveHigh(st.t, high) THEN turnHeatingOff(Invoke(st, "onHighTemp"), raw) ELSE st

\* the high comparison in an else branch of the low comparison
elseHighTemp(st, low, high, rawLow, rawHigh) ==
    IF BelowLow(st.t, low) THEN turnHeatingOn(Invoke(st, "onLowTemp"), rawLow)
    ELSE highTemp(st, high, rawHigh)

\* the body with data-ready dispatched after the threshold callbacks
DispatchDataLast(st, low, high, raws) ==
    dataReady(highTemp(lowTemp(sampleT(st, raws[1]), low, raws[3]), high, raws[4]), raws[2])

\* the body with the high comparison in an else branch of the low comparison
DispatchElseIf(st, low, high, raws) ==
    elseHighTemp(dataReady(sampleT(st, raws[1]), raws[2]), low, high, raws[3], raws[4])

\* the body of loop()'s if: sample, data-ready, low, high; raws are the raw codes
\* analogRead() returns to loop(), printValues(), turnHeatingOn(), turnHeatingOff()
Dispatch(st, low, high, raws) ==
    highTemp(lowTemp(dataReady(sampleT(st, raws[1]), raws[2]), low, raws[3]), high, raws[4])

\* the program after the body of loop()'s if ran at millis() = n and left st
Fire(n, st, raw) ==
    /\ sensor' = st.sensor
    /\ heatingIsOn' = st.heatingIsOn
    /\ calls' = st.calls
    /\ reads' = st.reads
    /\ t' = st.t
    /\ tRaw' = raw
    /\ lastFire' = IF "onDataReady" \in Range(st.calls) THEN n ELSE lastFire

\* the callbacks the loop() of the older NTCthermostat (a reference to the
\* sensor, no enabled flag, no data-ready callback) invokes with millis() = n
\* and getCelsius() returning temp
olderLoop(n, msInterval, lowerLimit, upperLimit, temp) ==
    IF Uint32Rem(n, msInterval) = 0
    THEN (IF FLess(temp, Fix(lowerLimit)) THEN <<"onLowTemp">> ELSE <<>>)
         \o (IF FLess(Fix(upperLimit), temp) THEN <<"onHighTemp">> ELSE <<>>)
    ELSE <<>>

\* the callbacks the loop() of the NTCthermostat derived from NTCsensor invokes
\* with millis() = n and its own getCelsius() returning temp
inheritedLoop(n, msInterval, lowerLimit, upperLimit, temp) ==
    IF Uint32Rem(n, msInterval) = 0
    THEN (IF FLess(temp, Fix(lowerLimit)) THEN <<"onLowTemp">> ELSE <<>>)
         \o (IF FLess(Fix(upperLimit), temp) THEN <<"onHighTemp">> ELSE <<>>)
    ELSE <<>>

\* outcomes of millis() % 0: a trap, or some remainder
ModByZero == {"trap", "zero", "nonzero"}

\* NTCthermostat::loop() with millis() = n; ub is the outcome of millis() % 0
Loop(n, ub) ==
    /\ ~trapped
    /\ n >= millis
    /\ millis' = n
    /\ lastOp' = "loop"
    /\ arg' = NoArg
    /\ returned' = Void
    /\ UNCHANGED <<ntc, adc, thermostatVars>>
    /\ IF msRefresh = 0 /\ ub = "trap"
       THEN /\ trapped' = TRUE
            /\ calls' = <<>> /\ reads' = <<>> /\ t' = NaN /\ tRaw' = NoRaw
            /\ UNCHANGED <<sensor, heatingIsOn, lastFire>>
       ELSE /\ trapped' = FALSE
            /\ IF Gate(Remainder(n, msRefresh, ub), isEnabled)
               THEN \E r1 \in RawCodes, rs \in [2..4 -> CallbackRawCodes] :
                       Fire(n, Dispatch(AppState, tLimitLow, tLimitHigh,
                                        <<r1, rs[2], rs[3], rs[4]>>), r1)
               ELSE /\ calls' = <<>> /\ reads' = <<>> /\ t' = NaN /\ tRaw' = NoRaw
                    /\ UNCHANGED <<sensor, heatingIsOn, lastFire>>

\* an operation that invokes no callback and takes no sample
Quiet(op) ==
    /\ ~trapped
    /\ lastOp' = op
    /\ returned' = Void
    /\ calls' = <<>> /\ reads' = <<>> /\ t' = NaN /\ tRaw' = NoRaw
    /\ UNCHANGED <<ntc, adc, sensor, heatingIsOn, millis, trapped, lastFire>>

\* the flag inverted by each call
enableToggles ==
    /\ Quiet("enable")
    /\ arg' = NoArg
    /\ isEnabled' = ~isEnabled
    /\ UNCHANGED <<tLimitLow, tLimitHigh, msRefresh>>

enable ==
    /\ Quiet("enable")
    /\ arg' = NoArg
    /\ isEnabled' = TRUE
    /\ UNCHANGED <<tLimitLow, tLimitHigh, msRefresh>>

disable ==
    /\ Quiet("disable")
    /\ arg' = NoArg
    /\ isEnabled' = FALSE
    /\ UNCHANGED <<tLimitLow, tLimitHigh, msRefresh>>

\* both limits set by one call, as the older setLimits() does
setLimitsBoth(x) ==
    /\ Quiet("setLimitLow")
    /\ arg' = x
    /\ tLimitLow' = x
    /\ tLimitHigh' = x
    /\ UNCHANGED <<isEnabled, msRefresh>>

setLimitLow(x) ==
    /\ Quiet("setLimitLow")
    /\ arg' = x
    /\ tLimitLow' = x
    /\ UNCHANGED <<isEnabled, tLimitHigh, msRefresh>>

setLimitHigh(x) ==
    /\ Quiet("setLimitHigh")
    /\ arg' = x
    /\ tLimitHigh' = x
    /\ UNCHANGED <<isEnabled, tLimitLow, msRefresh>>

setRefreshInterval(ms) ==
    /\ Quiet("setRefreshInterval")
    /\ arg' = ms
    /\ msRefresh' = ms
    /\ UNCHANGED <<isEnabled, tLimitLow, tLimitHigh>>

\* an accessor of the thermostat returning value
Accessor(op, value) ==
    /\ ~trapped
    /\ lastOp' = op
    /\ arg' = NoArg
    /\ returned' = value
    /\ calls' = <<>> /\ reads' = <<>> /\ t' = NaN /\ tRaw' = NoRaw
    /\ UNCHANGED <<ntc, adc, sensor, thermostatVars, heatingIsOn, millis, trapped, lastFire>>

getLimitLow == Accessor("getLimitLow", Fix(tLimitLow))

getLimitHigh == Accessor("getLimitHigh", Fix(tLimitHigh))

\* declared in NTCthermostat.h, not defined in NTCthermostat.cpp: the accessor
\* of the refresh interval
getRefreshInterval == Accessor("getRefreshInterval", Fix(msRefresh))

\* bool NTCthermostat::isEnabled()
IsEnabled == Accessor("isEnabled", Bool(isEnabled))

LoopStep ==
    \E n \in Ticks :
        \E ub \in IF msRefresh = 0 THEN ModByZero ELSE {"defined"} : Loop(n, ub)

SetLimitLowStep == \E x \in LimitValues : setLimitLow(x)

SetLimitHighStep == \E x \in LimitValues : setLimitHigh(x)

SetRefreshIntervalStep == \E ms \in IntervalValues : setRefreshInterval(ms)

Next ==
    \/ LoopStep
    \/ enable
    \/ disable
    \/ SetLimitLowStep
    \/ SetLimitHighStep
    \/ SetRefreshIntervalStep
    \/ getLimitLow
    \/ getLimitHigh
    \/ getRefreshInterval
    \/ IsEnabled

Spec == Init /\ [][Next]_vars

(***************************************************************************)
(* The sketch's loop() called at every value of millis() across the wrap   *)
(* of the counter                                                          *)
(***************************************************************************)
\* the latest value of millis() followed after the wrap
MaxWrapTick == 5000

\* the sketch after setup(), millis() one tick before the last multiple of the
\* interval below 2^32
InitWrap ==
    /\ ntc = ntcRs10k
    /\ adc = adcUno
    /\ sensor = NewSensor(RooOf(ntcRs10k))
    /\ isEnabled = TRUE
    /\ tLimitLow = 2100
    /\ tLimitHigh = 2200
    /\ msRefresh = DefaultRefresh
    /\ heatingIsOn = FALSE
    /\ millis = 0 - Pow2Rem[32, DefaultRefresh] - 1
    /\ trapped = FALSE
    /\ lastOp = "enable"
    /\ calls = <<>>
    /\ reads = <<>>
    /\ t = NaN
    /\ tRaw = NoRaw
    /\ lastFire = NoTick
    /\ arg = NoArg
    /\ returned = Void

\* loop() called when millis() shows the next tick
LoopNextTick ==
    /\ millis < MaxWrapTick
    /\ \E ub \in IF msRefresh = 0 THEN ModByZero ELSE {"defined"} : Loop(millis + 1, ub)

NextWrap == LoopNextTick

SpecWrap == InitWrap /\ [][NextWrap]_vars

\* the thermostat on a sensor that can read Rt == Roo as well
InitSingular == \E cfg \in ThermostatConfigs : Constructed(cfg)

SpecSingular == InitSingular /\ [][Next]_vars

(***************************************************************************)
(* The sensor alone: constructed from any of SensorConfigs, then read by   *)
(* its getters                                                             *)
(***************************************************************************)
\* a call of _readSensor() by the operation op, analogRead() returning raw
Getter(op, raw) ==
    /\ ~trapped
    /\ lastOp' = op
    /\ arg' = NoArg
    /\ sensor' = Samples[<<ntc, adc>>][raw]
    /\ reads' = <<op>>
    /\ calls' = <<>> /\ t' = NaN /\ tRaw' = NoRaw
    /\ UNCHANGED <<ntc, adc, thermostatVars, heatingIsOn, millis, trapped, lastFire>>

\* an operation of the sensor that does not call _readSensor()
NoRead(op, value) ==
    /\ ~trapped
    /\ lastOp' = op
    /\ arg' = NoArg
    /\ returned' = value
    /\ calls' = <<>> /\ reads' = <<>> /\ t' = NaN /\ tRaw' = NoRaw
    /\ UNCHANGED <<ntc, adc, sensor, thermostatVars, heatingIsOn, millis, trapped, lastFire>>

getCelsius == \E raw \in SensorRawCodes : Getter("getCelsius", raw) /\ returned' = sensor'.tCelsius

getKelvin == \E raw \in SensorRawCodes : Getter("getKelvin", raw) /\ returned' = sensor'.tKelvin

getFahrenheit ==
    \E raw \in SensorRawCodes : Getter("getFahrenheit", raw) /\ returned' = sensor'.tFahrenheit

getRt == \E raw \in SensorRawCodes : Getter("getRt", raw) /\ returned' = sensor'.Rt

getRoo == NoRead("getRoo", sensor.Roo)

\* the uint16_t _analogValue returned as double
getAnalogValue ==
    \E raw \in SensorRawCodes :
        Getter("getAnalogValue", raw) /\ returned' = Fix(sensor'.analogValue)

getFactorV == \E raw \in SensorRawCodes : Getter("getFactorV", raw) /\ returned' = sensor'.v

\* getVin() returning the stored _vin without a new reading
getVinCached == NoRead("getVin", sensor.vin)

getVin == \E raw \in SensorRawCodes : Getter("getVin", raw) /\ returned' = sensor'.vin

\* declared in NTCsensor.h, not defined in NTCsensor.cpp: a getter like the
\* others, returning k of a new reading
getFactorK == \E raw \in SensorRawCodes : Getter("getFactorK", raw) /\ returned' = sensor'.k

\* printParams() prints the parameters and _Roo
printParams == NoRead("printParams", Void)

\* printValues() takes a reading and prints its values
printValues == \E raw \in SensorRawCodes : Getter("printValues", raw) /\ returned' = Void

InitSensor == \E cfg \in SensorConfigs : Constructed(cfg)

NextSensor ==
    \/ getCelsius
    \/ getKelvin
    \/ getFahrenheit
    \/ getRt
    \/ getRoo
    \/ getAnalogValue
    \/ getFactorV
    \/ getVin
    \/ getFactorK
    \/ printParams
    \/ printValues

SpecSensor == InitSensor /\ [][NextSensor]_vars

(***************************************************************************)
(* Properties                                                              *)
(***************************************************************************)
\* the latest operation was a loop() call whose if-body ran
Fired == lastOp = "loop" /\ reads # <<>>

\* the latest operation was a loop() call of an enabled thermostat on a
\* multiple of a positive interval
OnRefreshTick ==
    lastOp = "loop" /\ ~trapped /\ isEnabled /\ msRefresh > 0 /\ millis % msRefresh = 0

\* number of times cb occurs in calls
Count(cb) == Cardinality({i \in DOMAIN calls : calls[i] = cb})

\* position of the first cb in calls
IndexOf(cb) == CHOOSE i \in DOMAIN calls : calls[i] = cb /\ \A j \in 1..(i - 1) : calls[j] # cb

\* C1: a loop() call of a disabled thermostat invokes no callback, takes no
\* sample and changes no thermostat state, whatever millis() shows
C1_DisabledLoopIsNoOp ==
    [][(lastOp' = "loop" /\ ~isEnabled)
        => /\ calls' = <<>>
           /\ reads' = <<>>
           /\ UNCHANGED <<thermostatVars, sensor, heatingIsOn, lastFire>>]_vars

\* loop() was called on a multiple of the interval while disabled
C1_Witness ==
    lastOp = "loop" /\ ~isEnabled /\ msRefresh = 5000 /\ millis = 5000 /\ calls = <<>>

\* C2: enabled and with an interval I > 0, loop() at tick n samples and
\* dispatches iff n mod I = 0; at any other tick nothing is invoked or sampled
C2_FiresIffMultiple ==
    (lastOp = "loop" /\ isEnabled /\ msRefresh > 0)
        => /\ (millis % msRefresh = 0) <=> (reads # <<>> /\ calls # <<>>)
           /\ (millis % msRefresh # 0) => (reads = <<>> /\ calls = <<>>)

\* loop() fired at tick 5000 with the interval 5000
C2_Witness ==
    lastOp = "loop" /\ isEnabled /\ msRefresh = 5000 /\ millis = 5000 /\ Fired

\* C3: on a firing tick data-ready is invoked exactly once, whatever the
\* temperature and the limits, and before any low or high callback
C3_DataReadyOnceAndFirst ==
    (OnRefreshTick \/ Fired)
        => /\ calls # <<>>
           /\ calls[1] = "onDataReady"
           /\ Count("onDataReady") = 1

\* a firing tick on which a threshold callback followed data-ready
C3_Witness ==
    OnRefreshTick /\ Len(calls) >= 2 /\ calls[1] = "onDataReady" /\ calls[2] = "onHighTemp"

\* C4: on a firing tick loop() takes one sample t itself and compares that t
\* with both limits: low is invoked iff t < low limit, high iff t > high
\* limit, so a sample equal to a limit invokes neither
C4_StrictThresholds ==
    (OnRefreshTick \/ Fired)
        => /\ Cardinality({i \in DOMAIN reads : reads[i] = "loop"}) = 1
           /\ reads[1] = "loop"
           /\ tRaw \in RawCodes
           /\ t = Samples[<<ntc, adc>>][tRaw].tCelsius
           /\ IsNum(t)
           /\ ("onLowTemp" \in Range(calls)) <=> (t.n < tLimitLow)
           /\ ("onHighTemp" \in Range(calls)) <=> (t.n > tLimitHigh)
           /\ (tLimitLow = 1800 /\ tLimitHigh = 2200)
                => /\ t.n = 1787 => calls = <<"onDataReady", "onLowTemp">>
                   /\ t.n = 2210 => calls = <<"onDataReady", "onHighTemp">>
                   /\ t.n = 2100 => calls = <<"onDataReady">>

\* a firing tick whose sample equals the low and the high limit: neither
\* threshold callback is invoked
C4_Witness ==
    /\ OnRefreshTick
    /\ t = Fix(2100) /\ tLimitLow = 2100 /\ tLimitHigh = 2100
    /\ calls = <<"onDataReady">>

\* C5: low and high are both invoked on a firing tick iff high limit < t <
\* low limit, low before high; with low limit <= high limit at most one of
\* them is invoked
C5_BothOnlyWhenInverted ==
    (OnRefreshTick \/ Fired)
        => LET both == "onLowTemp" \in Range(calls) /\ "onHighTemp" \in Range(calls)
           IN  /\ both <=> (IsNum(t) /\ tLimitHigh < t.n /\ t.n < tLimitLow)
               /\ both => IndexOf("onLowTemp") < IndexOf("onHighTemp")
               /\ (tLimitLow <= tLimitHigh) => ~both

\* the setters accepted an inverted pair and one sample invoked low, then high
C5_Witness ==
    /\ OnRefreshTick
    /\ tLimitLow = 2200 /\ tLimitHigh = 1800 /\ t = Fix(2100)
    /\ calls = <<"onDataReady", "onLowTemp", "onHighTemp">>

\* C6: data-ready is invoked at most once per multiple of the refresh
\* interval: a loop() call does not invoke it at a tick value at which it was
\* invoked before
C6_OncePerRefreshTick ==
    [][(lastOp' = "loop" /\ "onDataReady" \in Range(calls')) => lastFire # millis']_vars

\* C7: while enabled, when loop() calls follow each other at most one
\* interval apart, a call that passes a multiple of the interval invokes
\* data-ready
C7_NoRefreshTickMissed ==
    [][(/\ lastOp = "loop" /\ lastOp' = "loop"
        /\ ~trapped /\ ~trapped'
        /\ isEnabled /\ msRefresh > 0
        /\ millis' - millis <= msRefresh
        /\ (millis' \div msRefresh) > (millis \div msRefresh))
        => "onDataReady" \in Range(calls')]_vars

\* C8 as stated: a newly constructed thermostat is disabled with the limits
\* 18.0 and 22.0 and the interval 5000
C8_DefaultsAsStated ==
    lastOp = "init"
        => ~isEnabled /\ tLimitLow = 1800 /\ tLimitHigh = 2200 /\ msRefresh = 5000

\* C8 amended: a newly constructed thermostat is disabled with the limits
\* 18.0 and 21.0 and the interval 5000
C8_Defaults ==
    lastOp = "init"
        => ~isEnabled /\ tLimitLow = 1800 /\ tLimitHigh = 2100 /\ msRefresh = 5000

\* the thermostat right after construction
C8_Witness == lastOp = "init" /\ millis = 0 /\ lastFire = NoTick /\ ~heatingIsOn

\* C9: the refresh interval is positive in every reachable state, so loop()
\* never divides by zero
C9_RefreshIntervalPositive == msRefresh > 0 /\ ~trapped

\* parameters the data model calls a configuration error
InvalidParams == ntc.Ro <= 0 \/ ntc.beta <= 0 \/ adc.Vref <= adc.Voff

\* C10: a sensor constructed from invalid parameters is not usable: no sample
\* is ever computed from them
C10_InvalidParamsNeverSampled == InvalidParams => reads = <<>>

\* the values of the sample loop() took for t
LoopSample == Samples[<<ntc, adc>>][tRaw]

\* the latest operation was a loop() call that read millis() on a multiple of
\* a positive interval while enabled
OnFiringTick == lastOp = "loop" /\ isEnabled /\ msRefresh > 0 /\ millis % msRefresh = 0

\* C11: whatever raw code the sample has (0, Amax and a reading with
\* Rt == Roo included), loop() on a firing tick completes and invokes
\* data-ready, and a loop() call on a firing tick that follows a firing fires too
C11_SingularReadingKeepsLoopRunning ==
    /\ [](OnFiringTick => /\ ~trapped
                           /\ tRaw \in RawCodes
                           /\ Count("onDataReady") = 1)
    /\ [][(Fired /\ OnFiringTick') => ("onDataReady" \in Range(calls'))]_vars

\* a firing tick after an earlier firing, with a reading Rt == Roo
C11_Witness ==
    /\ OnFiringTick /\ millis = 5000 /\ lastFire = 5000
    /\ LoopSample.Rt = LoopSample.Roo /\ t = PInf
    /\ calls[1] = "onDataReady"

\* the sample loop() took has Vcc == Vin or Rt == Roo
SingularSample == LoopSample.vin = Fix(adc.Vcc) \/ LoopSample.Rt = LoopSample.Roo

\* C12: on a firing tick whose sample is singular (Vcc == Vin or Rt == Roo)
\* the temperature is an infinite value above every limit: the high callback
\* is invoked and the low callback is not
C12_SingularityReadsHigh ==
    (OnFiringTick /\ SingularSample)
        => /\ t = PInf
           /\ "onHighTemp" \in Range(calls)
           /\ "onLowTemp" \notin Range(calls)

\* the sensor's parameters are none of the configuration errors
ValidParams == ntc.Ro > 0 /\ ntc.beta > 0 /\ adc.Vref > adc.Voff

\* the latest operation of the sensor took a reading
Sampled == reads # <<>> /\ lastOp # "loop"

\* C13: a reading with the raw code 0 and the NTC to ground, or with
\* Vin == Vcc, stores Rt = Roo and an infinite Kelvin temperature, from which
\* Celsius and Fahrenheit are derived
C13_SingularityStoresRoo ==
    (/\ Sampled /\ ValidParams
     /\ \/ sensor.analogValue = 0 /\ adc.ntcToGround
        \/ sensor.vin = Fix(adc.Vcc))
        => /\ sensor.Rt = sensor.Roo
           /\ sensor.tKelvin = PInf
           /\ sensor.tCelsius = PInf
           /\ sensor.tFahrenheit = PInf

\* C14: Roo is the value the constructor computed, it is strictly positive for
\* Ro > 0 and beta > 0 (0.8346 Ohm for ntcRs10k), and no getter, print or
\* sample operation changes it
C14_RooFixedAtConstruction ==
    /\ [](/\ sensor.Roo = RooOf(ntc)
          /\ (ntc.Ro > 0 /\ ntc.beta > 0) => (IsNum(sensor.Roo) /\ sensor.Roo.n > 0)
          /\ ntc = ntcRs10k => /\ 8345 * sensor.Roo.d <= 10000 * sensor.Roo.n
                                /\ 10000 * sensor.Roo.n <= 8347 * sensor.Roo.d)
    /\ [][sensor'.Roo = sensor.Roo]_vars

\* a reading with the raw code Amax was taken and Roo is what it was
C14_Witness ==
    /\ Sampled /\ ValidParams /\ sensor.analogValue = adc.Amax
    /\ sensor.Rt = PInf /\ sensor.Roo = RooOf(ntcRs10k)

\* C15: after a reading the Kelvin temperature is the one of the stored Rt,
\* Celsius = Kelvin - 273.15 (1/100 degree) and Fahrenheit = Celsius * 9/5 + 32
\* (1/500 degree); an infinite or NaN Kelvin value carries over to both
C15_UnitConversion ==
    Sampled
        => /\ sensor.tKelvin = KelvinOf(ntc.beta, sensor.Rt, sensor.Roo)
           /\ IsNum(sensor.tKelvin)
                => /\ sensor.tCelsius = Fix(sensor.tKelvin.n - 27315)
                   /\ sensor.tFahrenheit = Fix(9 * sensor.tCelsius.n + 16000)
           /\ ~IsNum(sensor.tKelvin)
                => /\ sensor.tCelsius = sensor.tKelvin
                   /\ sensor.tFahrenheit = sensor.tKelvin

\* a reading of 273.15 Kelvin: 0.00 degrees Celsius and 32 degrees Fahrenheit
C15_Witness ==
    /\ Sampled /\ sensor.analogValue = 719
    /\ sensor.tKelvin = Fix(27315) /\ sensor.tCelsius = Fix(0) /\ sensor.tFahrenheit = Fix(16000)

\* Voff = 0 and Vref = Vcc
IdealCalibration == adc.Voff = 0 /\ adc.Vref = adc.Vcc

\* the stored raw code is inside the range, the singular ends excluded
InsideRange == 0 < sensor.analogValue /\ sensor.analogValue < adc.Amax

\* C16: with an ideal calibration and 0 < Aval < Amax, Rt is
\* Rs * Aval / (Amax - Aval) with the NTC to ground and
\* Rs * (Amax - Aval) / Aval with the NTC to Vcc, k being Vin / (Vcc - Vin)
\* inverted exactly when ntcToGround is false; the older variant computes the
\* same Rt
C16_IdealResistance ==
    (Sampled /\ IdealCalibration /\ InsideRange)
        => /\ sensor.Rt = IF adc.ntcToGround
                           THEN Rat(ntc.Rs * sensor.analogValue, adc.Amax - sensor.analogValue)
                           ELSE Rat(ntc.Rs * (adc.Amax - sensor.analogValue), sensor.analogValue)
           /\ sensor.k = IF adc.ntcToGround
                          THEN RDiv(sensor.vin, RSub(Fix(adc.Vcc), sensor.vin))
                          ELSE RDiv(RSub(Fix(adc.Vcc), sensor.vin), sensor.vin)
           /\ sensor.Rt = olderRt(ntc, adc, sensor.analogValue)

\* a reading with the NTC to Vcc: Rt = 10000 * 488 / 535
C16_Witness ==
    /\ Sampled /\ IdealCalibration /\ ~adc.ntcToGround
    /\ sensor.analogValue = 535 /\ sensor.Rt = Rat(4880000, 535)

\* the ADC parameters with the NTC connected the other way
Mirror(paramsAdc) == [paramsAdc EXCEPT !.ntcToGround = ~@]

\* C17: with an ideal calibration and 0 < A < Amax, a reading of A gives the
\* resistance and the temperatures that a reading of Amax - A gives with the
\* NTC connected the other way
C17_TopologySymmetry ==
    (/\ Sampled /\ IdealCalibration /\ InsideRange
     /\ <<ntc, Mirror(adc)>> \in SensorConfigs
     /\ (adc.Amax - sensor.analogValue) \in SensorRawCodes)
        => LET other == Samples[<<ntc, Mirror(adc)>>][adc.Amax - sensor.analogValue]
           IN  /\ sensor.Rt = other.Rt
               /\ sensor.tKelvin = other.tKelvin
               /\ sensor.tCelsius = other.tCelsius
               /\ sensor.tFahrenheit = other.tFahrenheit

\* a reading of 488 with the NTC to ground: 27.94 degrees Celsius, as 535
\* reads with the NTC to Vcc
C17_Witness ==
    /\ Sampled /\ ntc = ntcRs10k /\ adc = adcUno
    /\ sensor.analogValue = 488 /\ sensor.tCelsius = Fix(2794)
    /\ Samples[<<ntcRs10k, adcUnoToVcc>>][535].tCelsius = Fix(2794)

\* the readings of the raw codes inside the range below the stored one
LowerCodes == {b \in SensorRawCodes : 0 < b /\ b < sensor.analogValue}

\* C18 as stated: with the NTC to ground, a reading has a lower resistance and
\* a higher temperature than the reading of every lower raw code inside the range
C18_TemperatureIncreasesWithCode ==
    (Sampled /\ ValidParams /\ adc.ntcToGround /\ InsideRange)
        => \A b \in LowerCodes :
              /\ FLess(sensor.Rt, Samples[<<ntc, adc>>][b].Rt)
              /\ FLess(Samples[<<ntc, adc>>][b].tKelvin, sensor.tKelvin)

\* C18 amended: with the NTC to ground, a reading has a higher resistance and
\* a lower temperature than the reading of every lower raw code inside the
\* range whose resistance is at least Roo
C18_TemperatureDecreasesWithCode ==
    (Sampled /\ ValidParams /\ adc.ntcToGround /\ InsideRange)
        => \A b \in LowerCodes :
              ~FLess(Samples[<<ntc, adc>>][b].Rt, sensor.Roo)
                => /\ FLess(Samples[<<ntc, adc>>][b].Rt, sensor.Rt)
                   /\ FLess(sensor.tKelvin, Samples[<<ntc, adc>>][b].tKelvin)
                   /\ FLess(sensor.tCelsius, Samples[<<ntc, adc>>][b].tCelsius)

\* the raw code 570 reads 17.87 degrees Celsius where 535 reads 22.10
C18_Witness ==
    /\ Sampled /\ ntc = ntcRs10k /\ adc = adcUno
    /\ sensor.analogValue = 570 /\ sensor.tCelsius = Fix(1787)
    /\ Samples[<<ntcRs10k, adcUno>>][535].tCelsius = Fix(2210)

\* the getters that derive their value from a reading
ReadingGetters ==
    {"getCelsius", "getKelvin", "getFahrenheit", "getRt", "getAnalogValue",
     "getFactorV", "getVin", "getFactorK"}

\* the stored value that belongs to the getter op
ValueOf(op) ==
    CASE op = "getCelsius" -> sensor.tCelsius
      [] op = "getKelvin" -> sensor.tKelvin
      [] op = "getFahrenheit" -> sensor.tFahrenheit
      [] op = "getRt" -> sensor.Rt
      [] op = "getAnalogValue" -> Fix(sensor.analogValue)
      [] op = "getFactorV" -> sensor.v
      [] op = "getVin" -> sensor.vin
      [] op = "getFactorK" -> sensor.k

\* C19: a call of a reading getter takes exactly one reading, stores what
\* _readSensor() computes from its raw code and returns the getter's value of
\* that reading; getRoo takes no reading, leaves the stored values alone and
\* returns Roo
C19_GettersSampleOnce ==
    /\ [](lastOp \in ReadingGetters
            => /\ reads = <<lastOp>>
               /\ sensor = Samples[<<ntc, adc>>][sensor.analogValue]
               /\ returned = ValueOf(lastOp))
    /\ [](lastOp = "getRoo" => (reads = <<>> /\ returned = sensor.Roo))
    /\ [][lastOp' = "getRoo" => sensor' = sensor]_vars

\* getVin() after a reading of the raw code 1023 returns 5000 mV
C19_Witness ==
    /\ lastOp = "getVin" /\ reads = <<"getVin">>
    /\ ntc = ntcRs10k /\ adc = adcUno
    /\ sensor.analogValue = 1023 /\ returned = Fix(5000)

\* C20: a setter of the thermostat stores its argument in its own field and
\* leaves the other two fields and the enabled flag as they were, and the
\* getter called next returns the argument
C20_SettersChangeOwnFieldOnly ==
    /\ [][lastOp' = "setLimitLow"
            => (tLimitLow' = arg' /\ UNCHANGED <<tLimitHigh, msRefresh, isEnabled>>)]_vars
    /\ [][lastOp' = "setLimitHigh"
            => (tLimitHigh' = arg' /\ UNCHANGED <<tLimitLow, msRefresh, isEnabled>>)]_vars
    /\ [][lastOp' = "setRefreshInterval"
            => (msRefresh' = arg' /\ UNCHANGED <<tLimitLow, tLimitHigh, isEnabled>>)]_vars
    /\ [][(lastOp = "setLimitLow" /\ lastOp' = "getLimitLow")
            => returned' = Fix(arg)]_vars
    /\ [][(lastOp = "setLimitHigh" /\ lastOp' = "getLimitHigh")
            => returned' = Fix(arg)]_vars
    /\ [][(lastOp = "setRefreshInterval" /\ lastOp' = "getRefreshInterval")
            => returned' = Fix(arg)]_vars

\* getLimitLow() returns the 22.00 degrees that setLimitLow() stored, the high
\* limit, the interval and the flag being the constructor's
C20_Witness ==
    /\ lastOp = "getLimitLow" /\ returned = Fix(2200)
    /\ tLimitLow = 2200 /\ tLimitHigh = DefaultLimitHigh
    /\ msRefresh = 5000 /\ ~isEnabled

\* C21: enable() and disable() set the flag whatever it was, no other
\* operation changes it and isEnabled() returns it; while it is false no
\* callback is invoked, and a loop() call of an enabled thermostat on a
\* multiple of a positive interval fires
C21_EnableDisable ==
    /\ [][lastOp' = "enable" => isEnabled']_vars
    /\ [][lastOp' = "disable" => ~isEnabled']_vars
    /\ [][lastOp' \notin {"enable", "disable"} => isEnabled' = isEnabled]_vars
    /\ [](lastOp = "isEnabled" => returned = Bool(isEnabled))
    /\ [](~isEnabled => calls = <<>>)
    /\ [][(/\ lastOp' = "loop" /\ isEnabled /\ ~trapped'
           /\ msRefresh > 0 /\ millis' % msRefresh = 0)
            => (calls' # <<>> /\ reads' # <<>>)]_vars

\* the thermostat fired at tick 5000, was disabled, and loop() at tick 10000
\* invoked nothing
C21_Witness ==
    /\ lastOp = "loop" /\ ~isEnabled /\ msRefresh = 5000
    /\ lastFire = 5000 /\ millis = 10000 /\ calls = <<>>

\* the low limit is not above the high limit
LimitsInOrder == tLimitLow <= tLimitHigh

\* C22: with low limit <= high limit, heatingIsOn turns true only on a firing
\* tick whose sample is below the low limit and false only on a firing tick
\* whose sample is above the high limit; it keeps its value on a firing tick
\* whose sample is within the limits and on every step that does not fire; a
\* low callback while the heating is on, or a high callback while it is off,
\* changes nothing and reads nothing
C22_Hysteresis ==
    /\ [][(LimitsInOrder /\ ~heatingIsOn /\ heatingIsOn')
            => (lastOp' = "loop" /\ reads' # <<>> /\ IsNum(t') /\ t'.n < tLimitLow)]_vars
    /\ [][(LimitsInOrder /\ heatingIsOn /\ ~heatingIsOn')
            => (lastOp' = "loop" /\ reads' # <<>> /\ IsNum(t') /\ t'.n > tLimitHigh)]_vars
    /\ [][(/\ LimitsInOrder /\ lastOp' = "loop" /\ reads' # <<>>
           /\ IsNum(t') /\ tLimitLow <= t'.n /\ t'.n <= tLimitHigh)
            => heatingIsOn' = heatingIsOn]_vars
    /\ [][(lastOp' # "loop" \/ reads' = <<>>) => heatingIsOn' = heatingIsOn]_vars
    /\ [][(LimitsInOrder /\ heatingIsOn /\ "onLowTemp" \in Range(calls'))
            => (heatingIsOn' /\ "turnHeatingOn" \notin Range(reads'))]_vars
    /\ [][(LimitsInOrder /\ ~heatingIsOn /\ "onHighTemp" \in Range(calls'))
            => (~heatingIsOn' /\ "turnHeatingOff" \notin Range(reads'))]_vars

\* the low callback was invoked again while the heating was on: the flag stays
\* and turnHeatingOn() reads nothing
C22_Witness ==
    /\ lastOp = "loop" /\ LimitsInOrder /\ heatingIsOn
    /\ t = Fix(1787) /\ tLimitLow = 1800
    /\ calls = <<"onDataReady", "onLowTemp">>
    /\ reads = <<"loop", "printValues">>

\* C23: with loop() called at every tick while enabled, a firing tick is
\* exactly one refresh interval after the firing tick before it, across the
\* wrap of millis() as well
C23_FiringsOneIntervalApart ==
    [][(/\ lastOp' = "loop" /\ isEnabled /\ msRefresh > 0
        /\ "onDataReady" \in Range(calls')
        /\ lastFire # NoTick)
        => (lastFire' = millis' /\ millis' - lastFire = msRefresh)]_vars

\* C24: with valid parameters (Amax > 0, Vref > Voff, Voff negative or not),
\* the sample loop() takes on a firing tick has 0 <= Vin < Vcc and Rt > 0, and
\* the temperature compared with the limits is not NaN
C24_ReadingNeverUndefined ==
    (Fired /\ ValidParams /\ adc.Amax > 0)
        => /\ ~FLess(LoopSample.vin, Fix(0))
           /\ FLess(LoopSample.vin, Fix(adc.Vcc))
           /\ FLess(Fix(0), LoopSample.Rt)
           /\ t.k # "nan"

\* cb is the low or the high callback
IsThresholdCallback(cb) == cb # "onDataReady"

\* the low and high callbacks of the latest operation, in order
ThresholdCalls == SelectSeq(calls, IsThresholdCallback)

\* C25: after a loop() call with a positive interval, the enabled thermostat
\* has invoked the low and high callbacks that both older variants invoke at
\* the same tick with the same sample, limits and interval, in the same order,
\* preceded by data-ready when it fired; the disabled one has invoked nothing
C25_RefinesOlderVariants ==
    (lastOp = "loop" /\ ~trapped /\ msRefresh > 0)
        => /\ isEnabled
                => /\ ThresholdCalls = olderLoop(millis, msRefresh, tLimitLow, tLimitHigh, t)
                   /\ ThresholdCalls = inheritedLoop(millis, msRefresh, tLimitLow, tLimitHigh, t)
                   /\ calls # <<>> => calls = <<"onDataReady">> \o ThresholdCalls
                   /\ calls = <<>> => Uint32Rem(millis, msRefresh) # 0
           /\ ~isEnabled => calls = <<>>

\* a firing tick with the limits inverted: low and high invoked in this order
\* by all three
C25_Witness ==
    /\ lastOp = "loop" /\ isEnabled /\ millis = 5000 /\ msRefresh = 5000
    /\ tLimitLow = 2200 /\ tLimitHigh = 1800 /\ t = Fix(2100)
    /\ calls = <<"onDataReady", "onLowTemp", "onHighTemp">>
    /\ olderLoop(millis, msRefresh, tLimitLow, tLimitHigh, t) = <<"onLowTemp", "onHighTemp">>
    /\ inheritedLoop(millis, msRefresh, tLimitLow, tLimitHigh, t) = <<"onLowTemp", "onHighTemp">>

====
